---- MODULE Spec2Model ----
(***************************************************************************)
(* Model of thrifty's carrier detector (thrifty/carrier_detect.py) and of  *)
(* its settings loader (thrifty/settings.py).                              *)
(*                                                                         *)
(* The functions of carrier_detect.py are pure.  Each is an operator that  *)
(* computes what the Python code computes, and each specification draws    *)
(* the arguments of a call in Init and applies the function in one action. *)
(*                                                                         *)
(* Representation of Python values:                                        *)
(*   - arrays and lists are sequences; Python's 0-based index i is the     *)
(*     sequence index i+1 (operator At);                                   *)
(*   - an optional argument is None (the empty tuple) or Some(v);          *)
(*   - a raised exception is a record [raised |-> <name>];                 *)
(*   - spectrum magnitudes are natural numbers.  A non-negative real       *)
(*     produced by np.sqrt is represented by its radicand (peak_sq is      *)
(*     peak_mag**2), a quotient by numerator and denominator, and NaN by   *)
(*     a flag, so that all arithmetic stays exact.                         *)
(***************************************************************************)
EXTENDS Integers, Sequences, FiniteSets, TLC

\* ---------------------------------------------------------------- bounds
\* largest FFT length tried exhaustively by the range specification
MaxLen == 4
\* largest spectrum length of the detector specification
MaxL == 3
\* largest magnitude of a spectrum bin
MaxMag == 1
\* largest number of matched-filter weights
MaxM == 2
\* largest matched-filter weight
MaxW == 1

\* ------------------------------------------------------------- utilities
None == << >>
Some(v) == << v >>
NoError == "none"
ValueErrorRange == "ValueError: Frequency window out of range"
ValueErrorArgmax == "ValueError: attempt to get an argmax of an empty sequence"

Abs(x) == IF x < 0 THEN -x ELSE x

At(s, i) == s[i + 1]

SeqsUpTo(S, lo, hi) == UNION { [1..n -> S] : n \in lo..hi }

RECURSIVE SumTo(_, _)
\* sum of f[1..n]
SumTo(f, n) == IF n = 0 THEN 0 ELSE f[n] + SumTo(f, n - 1)

Sum(s) == SumTo(s, Len(s))

Squares(s) == [i \in 1..Len(s) |-> s[i] * s[i]]

Reversed(s) == [i \in 1..Len(s) |-> s[Len(s) + 1 - i]]

\* np.argmax: the 0-based index of the first occurrence of the maximum
ArgMax(s) ==
    CHOOSE i \in 0..(Len(s) - 1) :
        /\ \A j \in 0..(Len(s) - 1) : At(s, j) <= At(s, i)
        /\ \A j \in 0..(i - 1) : At(s, j) < At(s, i)

\* ------------------------------------------------------------- mutations
\* fft_range_index without the wraparound branch of lines 50-51
fft_range_index_naive(start, stop, length) ==
    IF Abs(start) >= length \/ Abs(stop) >= length
    THEN [raised |-> ValueErrorRange]
    ELSE LET s2 == IF start < 0 THEN length + start ELSE start
             t2 == IF stop < 0 THEN length + stop ELSE stop
         IN  IF t2 < s2
             THEN [raised |-> NoError, start_idx |-> t2, stop_idx |-> s2]
             ELSE [raised |-> NoError, start_idx |-> s2, stop_idx |-> t2]

\* fft_range_index without the swap of lines 56-57
fft_range_index_noswap(start, stop, length) ==
    IF Abs(start) >= length \/ Abs(stop) >= length
    THEN [raised |-> ValueErrorRange]
    ELSE LET wrap == start < 0 /\ stop >= 0
             s1 == IF wrap THEN length + start ELSE start
             t1 == IF wrap THEN length + stop ELSE stop
             s2 == IF s1 < 0 THEN length + s1 ELSE s1
             t2 == IF t1 < 0 THEN length + t1 ELSE t1
         IN  [raised |-> NoError, start_idx |-> s2, stop_idx |-> t2]

\* ------------------------------------------------------- fft_range_index
fft_range_index(start, stop, length) ==
    IF Abs(start) >= length \/ Abs(stop) >= length
    THEN [raised |-> ValueErrorRange]
    ELSE LET wrap == start < 0 /\ stop >= 0
             s1 == IF wrap THEN length + start ELSE start
             t1 == IF wrap THEN length + stop ELSE stop
             s2 == IF s1 < 0 THEN length + s1 ELSE s1
             t2 == IF t1 < 0 THEN length + t1 ELSE t1
         IN  IF t2 < s2
             THEN [raised |-> NoError, start_idx |-> t2, stop_idx |-> s2]
             ELSE [raised |-> NoError, start_idx |-> s2, stop_idx |-> t2]

\* ------------------------------------------------------------ _get_window
\* np.take(array, indices, mode='wrap'): every index is taken modulo len(array)
TakeWrap(array, indices) ==
    [j \in 1..Len(indices) |-> At(array, indices[j] % Len(array))]

\* range(lo, hi): lo, lo+1, ..., hi-1
Range(lo, hi) == [j \in 1..(IF hi > lo THEN hi - lo ELSE 0) |-> lo + j - 1]

\* _get_window that takes range(start_idx, stop_idx), without the last bin
_get_window_open(array, window) ==
    LET bounds == IF window = None THEN << 0, -1 >> ELSE window[1]
        idx == fft_range_index(bounds[1], bounds[2], Len(array))
    IN  IF idx.raised # NoError
        THEN [raised |-> idx.raised]
        ELSE [raised |-> NoError,
              selection |-> TakeWrap(array, Range(idx.start_idx, idx.stop_idx)),
              start_idx |-> idx.start_idx]

_get_window(array, window) ==
    LET bounds == IF window = None THEN << 0, -1 >> ELSE window[1]
        idx == fft_range_index(bounds[1], bounds[2], Len(array))
    IN  IF idx.raised # NoError
        THEN [raised |-> idx.raised]
        ELSE [raised |-> NoError,
              selection |-> TakeWrap(array, Range(idx.start_idx, idx.stop_idx + 1)),
              start_idx |-> idx.start_idx]

\* ---------------------------------------------------------------- _filter
\* scipy.signal.lfilter(b, 1, x): y[n] = sum of b[j]*x[n-j] over the j with
\* 0 <= j < len(b) and n-j >= 0 (zero initial conditions, len(y) = len(x))
RECURSIVE FirTerm(_, _, _, _)
FirTerm(b, x, n, j) ==
    IF j < 0 THEN 0 ELSE At(b, j) * At(x, n - j) + FirTerm(b, x, n, j - 1)

LFilter(b, x) ==
    [i \in 1..Len(x) |->
        FirTerm(b, x, i - 1, IF i - 1 < Len(b) - 1 THEN i - 1 ELSE Len(b) - 1)]

\* _filter that does not reverse the weights
_filter_unreversed(mags, weights) ==
    IF Len(weights) = 0
    THEN [raised |-> ValueErrorArgmax]
    ELSE [raised |-> NoError,
          delay |-> Len(weights) - ArgMax(weights) - 1,
          filtered_sq |-> LFilter(Squares(weights), Squares(mags))]

\* filtered_sq is the argument of np.sqrt: filtered = sqrt(filtered_sq)
_filter(mags, weights) ==
    IF Len(weights) = 0
    THEN [raised |-> ValueErrorArgmax]
    ELSE [raised |-> NoError,
          delay |-> Len(weights) - ArgMax(weights) - 1,
          filtered_sq |-> LFilter(Squares(Reversed(weights)), Squares(mags))]

\* ------------------------------------------------------------ _window_peak
\* the single wrap of lines 151-152
WrapPeak(peak_idx, length) ==
    IF peak_idx > length THEN peak_idx - length ELSE peak_idx

\* mags_sq holds the squares of the array `mags` of the code: without a
\* filter mags is the window itself, with a filter it is sqrt(filtered_sq).
\* Squaring keeps the order of non-negative numbers, so np.argmax(mags) is
\* ArgMax(mags_sq) and peak_mag**2 is mags_sq[max_idx].
_window_peak(fft_mag, window, peak_filter) ==
    LET win == _get_window(fft_mag, window)
        flt == IF peak_filter = None
               THEN [raised |-> NoError, delay |-> 0,
                     filtered_sq |-> Squares(win.selection)]
               ELSE _filter(win.selection, peak_filter[1])
    IN  IF win.raised # NoError THEN [raised |-> win.raised]
        ELSE IF flt.raised # NoError THEN [raised |-> flt.raised]
        ELSE LET max_idx == ArgMax(flt.filtered_sq)
             IN  [raised |-> NoError,
                  selection |-> win.selection,
                  start_idx |-> win.start_idx,
                  filter_delay |-> flt.delay,
                  mags_sq |-> flt.filtered_sq,
                  max_idx |-> max_idx,
                  peak_sq |-> At(flt.filtered_sq, max_idx),
                  peak_idx |-> WrapPeak(max_idx - flt.delay + win.start_idx,
                                        Len(fft_mag))]

\* ---------------------------------------------------------- _estimate_noise
\* _estimate_noise that subtracts the peak power once
_estimate_noise_once(fft_mag, peak_sq) ==
    LET fft_energy == Sum(Squares(fft_mag))
        num == fft_energy - peak_sq
        den == Len(fft_mag) - 1
    IN  [nan |-> num < 0, num |-> num, den |-> den]

\* _estimate_noise that divides by the number of bins
_estimate_noise_biased(fft_mag, peak_sq) ==
    LET fft_energy == Sum(Squares(fft_mag))
        num == fft_energy - 2 * peak_sq
        den == Len(fft_mag)
    IN  [nan |-> num < 0, num |-> num, den |-> den]

\* noise_power = num/den; noise_rms = sqrt(noise_power) is NaN when the
\* power is negative (den > 0 for every spectrum of two or more bins)
_estimate_noise(fft_mag, peak_sq) ==
    LET fft_energy == Sum(Squares(fft_mag))
        num == fft_energy - 2 * peak_sq
        den == Len(fft_mag) - 1
    IN  [nan |-> num < 0, num |-> num, den |-> den]

\* ------------------------------------------------------ _calculate_threshold
\* np.std(x)**2 = (L*sum(x**2) - sum(x)**2) / L**2, the population variance
VarNum(fft_mag) ==
    Len(fft_mag) * Sum(Squares(fft_mag)) - Sum(fft_mag) * Sum(fft_mag)

\* thresh = num/den is the argument of np.sqrt; the returned threshold is NaN
\* when noise_rms is NaN (NaN propagates through 0*NaN as well) or thresh < 0
_calculate_threshold(fft_mag, thresh_coeffs, noise_rms) ==
    LET thresh_const == thresh_coeffs[1]
        thresh_snr == thresh_coeffs[2]
        thresh_stddev == thresh_coeffs[3]
        L2 == Len(fft_mag) * Len(fft_mag)
        stddev_num == IF thresh_stddev # 0 THEN VarNum(fft_mag) ELSE 0
        num == thresh_const * noise_rms.den * L2
               + thresh_snr * noise_rms.num * L2
               + thresh_stddev * stddev_num * noise_rms.den
        den == noise_rms.den * L2
    IN  [nan |-> noise_rms.nan \/ num < 0, num |-> num, den |-> den]

\* peak_mag > threshold, False when the threshold is NaN
Exceeds(peak_sq, threshold) ==
    ~threshold.nan /\ peak_sq * threshold.den > threshold.num

\* ------------------------------------------------------------------ detect
detect(fft_mag, thresh_coeffs, window, peak_filter) ==
    LET peak == _window_peak(fft_mag, window, peak_filter)
    IN  IF peak.raised # NoError THEN [raised |-> peak.raised]
        ELSE LET noise_rms == _estimate_noise(fft_mag, peak.peak_sq)
                 threshold == _calculate_threshold(fft_mag, thresh_coeffs, noise_rms)
             IN  [raised |-> NoError,
                  detected |-> Exceeds(peak.peak_sq, threshold),
                  peak_idx |-> peak.peak_idx,
                  peak_sq |-> peak.peak_sq,
                  noise_rms |-> noise_rms,
                  threshold |-> threshold,
                  selection |-> peak.selection,
                  start_idx |-> peak.start_idx,
                  filter_delay |-> peak.filter_delay,
                  mags_sq |-> peak.mags_sq,
                  max_idx |-> peak.max_idx]

\* ---------------------------------------------------------------- settings
\* A dict is a function on its set of keys.
EmptyDict == [k \in {} |-> None]

\* d.update(e)
Update(d, e) ==
    [k \in (DOMAIN d) \cup (DOMAIN e) |-> IF k \in DOMAIN e THEN e[k] ELSE d[k]]

\* {k: v for k, v in d.iteritems() if k in ks}
Restrict(d, ks) == [k \in (DOMAIN d) \cap ks |-> d[k]]

DEFAULT_CONFIG_PATH == "thrifty.cfg"
CONFIG_DEST == "config"

SettingKeyError == "SettingKeyError"
ConfigSyntaxError == "ConfigSyntaxError"
IOError == "IOError"
UnboundLocalError == "UnboundLocalError: local variable 'config_file' referenced before assignment"
SystemExit == "SystemExit: unrecognized arguments"

\* definitions[k].parser(v): the value a parser makes of the string v
Parsed(parser, v) == [parser |-> parser, string |-> v]

\* A line of a config file is [key, delim, value, comment]: the text `key`,
\* then CONFIG_DELIMITER and `value` if delim, then CONFIG_COMMENT_CHAR and a
\* comment if comment.  The part before the comment character is empty when
\* key is "" and there is no delimiter.
RECURSIVE ParseLines(_, _, _)
ParseLines(config_file, line_no, settings) ==
    IF line_no >= Len(config_file)
    THEN [raised |-> NoError, settings |-> settings]
    ELSE LET line == At(config_file, line_no)
         IN  IF line.key = "" /\ ~line.delim
             THEN ParseLines(config_file, line_no + 1, settings)
             ELSE IF ~line.delim
             THEN [raised |-> ConfigSyntaxError, line_no |-> line_no + 1]
             ELSE ParseLines(config_file, line_no + 1,
                             Update(settings, [k \in {line.key} |-> line.value]))

_parse_config(config_file) == ParseLines(config_file, 0, EmptyDict)

\* the keys for which add_argparse_arguments adds an argument
ArgparseKeys(keys, definitions) ==
    { k \in keys : Len(definitions[k].args) > 0 }

\* args is a dict of argument strings, config_file is None or Some(lines)
load(args, config_file, definitions) ==
    LET defaults == [k \in { d \in DOMAIN definitions :
                               definitions[d].default # None }
                       |-> definitions[k].default[1]]
        config == IF config_file = None
                  THEN [raised |-> NoError, settings |-> EmptyDict]
                  ELSE _parse_config(config_file[1])
    IN  IF config.raised # NoError THEN [raised |-> config.raised]
        ELSE IF \E k \in DOMAIN config.settings : k \notin DOMAIN definitions
        THEN [raised |-> SettingKeyError]
        ELSE IF \E k \in DOMAIN args : k \notin DOMAIN definitions
        THEN [raised |-> SettingKeyError]
        ELSE LET strings == Update(Update(defaults, config.settings), args)
             IN  [raised |-> NoError,
                  values |-> [k \in DOMAIN strings |->
                                 Parsed(definitions[k].parser, strings[k])]]

\* parser is the dict of the arguments (dest -> value parsed from argv) that
\* the caller's parser already holds; argv is the dict option dest -> string
\* of the options given on the command line; files is the file system, a
\* dict path -> lines (a path that is no key cannot be opened).
load_args(parser, keys, argv, definitions, files) ==
    IF \E k \in keys : k \notin DOMAIN definitions
    THEN [raised |-> SettingKeyError]
    ELSE IF \E d \in DOMAIN argv :
              d \notin {CONFIG_DEST} \cup ArgparseKeys(keys, definitions)
    THEN [raised |-> SystemExit]
    ELSE
    LET given == ArgparseKeys(keys, definitions)
        \* vars(parser.parse_args(argv)): an argument that is not given
        \* holds the default it was added with
        args == [d \in {CONFIG_DEST} \cup given \cup DOMAIN parser |->
                    IF d \in DOMAIN argv THEN Some(argv[d])
                    ELSE IF d = CONFIG_DEST THEN None
                    ELSE IF d \in given THEN definitions[d].default
                    ELSE Some(parser[d])]
        config_arg == args[CONFIG_DEST]
        path == IF config_arg = None THEN DEFAULT_CONFIG_PATH ELSE config_arg[1]
        opened == path \in DOMAIN files
        rest == Restrict(args, (DOMAIN args) \ {CONFIG_DEST})
        key_args == [k \in { d \in DOMAIN rest : d \in keys /\ rest[d] # None }
                        |-> rest[k][1]]
        extra_args == [k \in { d \in DOMAIN rest : d \notin keys } |-> rest[k][1]]
        settings == load(key_args, Some(files[path]), definitions)
    IN  IF config_arg # None /\ ~opened THEN [raised |-> IOError]
        ELSE IF config_arg = None /\ ~opened THEN [raised |-> UnboundLocalError]
        ELSE IF settings.raised # NoError THEN settings
        ELSE [raised |-> NoError,
              subset |-> Restrict(settings.values, keys),
              extra_args |-> extra_args]

\* ------------------------------------------------------------------- state
\* pc is the call being made or the call that returned; ret is the value the
\* call returned (or the exception it raised), again the value of the second
\* call of fft_range_index; the other variables are the arguments of the call
\* (files is the content of the file system load_args reads).
VARIABLES pc, ret, again,
          start, stop, length,
          fft_mag, thresh_coeffs, window, peak_filter,
          parser, keys, argv, definitions, files

rangeArgs == << start, stop, length >>
detectArgs == << fft_mag, thresh_coeffs, window, peak_filter >>
settingsArgs == << parser, keys, argv, definitions, files >>

vars == << pc, ret, again, rangeArgs, detectArgs, settingsArgs >>

NoRangeArgs ==
    /\ start = 0
    /\ stop = 0
    /\ length = 0

NoDetectArgs ==
    /\ fft_mag = None
    /\ thresh_coeffs = None
    /\ window = None
    /\ peak_filter = None

NoSettingsArgs ==
    /\ parser = None
    /\ keys = {}
    /\ argv = None
    /\ definitions = None
    /\ files = None

\* the FFT length and the bounds of the docstring examples and of the
\* out-of-range cases of length 1024
DocLength == 1024
DocBounds == {50, 100, 0, -1, -10, 10, 1023, -1023, 1024, -1024}

RangeInit ==
    /\ pc = "fft_range_index"
    /\ \/ /\ length \in 0..MaxLen
          /\ start \in (-MaxLen)..MaxLen
          /\ stop \in (-MaxLen)..MaxLen
       \/ /\ length = DocLength
          /\ start \in DocBounds
          /\ stop \in DocBounds
    /\ ret = None
    /\ again = None
    /\ NoDetectArgs
    /\ NoSettingsArgs

\* the threshold coefficients (constant, snr, stddev) tried
ThreshCoeffs == { << 0, 0, 0 >>, << 1, 1, 0 >>, << 0, 1, 1 >> }

DetectInit ==
    /\ pc = "detect"
    /\ fft_mag \in SeqsUpTo(0..MaxMag, 2, MaxL)
    /\ thresh_coeffs \in ThreshCoeffs
    /\ window \in {None} \cup
           { Some(<< s, t >>) : s \in (-Len(fft_mag))..Len(fft_mag),
                                t \in (-Len(fft_mag))..Len(fft_mag) }
    /\ peak_filter \in {None} \cup { Some(w) : w \in SeqsUpTo(0..MaxW, 0, MaxM) }
    /\ ret = None
    /\ again = None
    /\ NoRangeArgs
    /\ NoSettingsArgs

Init == RangeInit \/ DetectInit

\* ret = fft_range_index(start, stop, length)
FftRangeIndex ==
    /\ pc = "fft_range_index"
    /\ ret' = fft_range_index(start, stop, length)
    /\ pc' = "range_returned"
    /\ UNCHANGED << rangeArgs, detectArgs, settingsArgs, again >>

\* the result of a call is passed to fft_range_index once more
Reapply ==
    /\ pc = "range_returned"
    /\ ret.raised = NoError
    /\ again' = fft_range_index(ret.start_idx, ret.stop_idx, length)
    /\ pc' = "range_reapplied"
    /\ UNCHANGED << rangeArgs, detectArgs, settingsArgs, ret >>

\* ret = detect(fft_mag, thresh_coeffs, window, peak_filter)
Detect ==
    /\ pc = "detect"
    /\ ret' = detect(fft_mag, thresh_coeffs, window, peak_filter)
    /\ pc' = "detect_returned"
    /\ UNCHANGED << rangeArgs, detectArgs, settingsArgs, again >>

Next == FftRangeIndex \/ Reapply \/ Detect

Spec == Init /\ [][Next]_vars

\* --------------------------------------------- the settings specification
\* the strings given as defaults, in config files and on the command line
SampleRateDefault == "2.2e6"
ChipRateDefault == "1.08e6"
Strings == {SampleRateDefault, ChipRateDefault}

Definition(args, parse, default) ==
    [args |-> args, parser |-> parse, default |-> default]

\* DEFINITIONS restricted to two settings, and variants of it: a setting
\* without a default, a setting without command-line arguments
DefinitionsTried ==
    { [k \in {"sample_rate", "chip_rate"} |-> IF k = "sample_rate" THEN a ELSE b] :
        a \in { Definition(<< "--sample-rate", "-s" >>, "metric_float", d) :
                  d \in {Some(SampleRateDefault), None} },
        b \in { Definition(x, "metric_float", Some(ChipRateDefault)) :
                  x \in { << "--chip-rate", "-p" >>, << >> } } }

\* "bandwidth" has no definition
KeysTried == SUBSET {"sample_rate", "chip_rate", "bandwidth"}

OtherConfigPath == "other.cfg"

Dicts(D, V) == UNION { [S -> V] : S \in SUBSET D }

ArgvTried ==
    { Update(c, o) : c \in Dicts({CONFIG_DEST}, {OtherConfigPath}),
                     o \in Dicts({"sample_rate", "chip_rate"}, Strings) }

Line(key, delim, value, comment) ==
    [key |-> key, delim |-> delim, value |-> value, comment |-> comment]

\* a comment line, two settings, a setting without definition, a line
\* without delimiter
LinesTried ==
    { Line("", FALSE, "", TRUE),
      Line("sample_rate", TRUE, ChipRateDefault, FALSE),
      Line("chip_rate", TRUE, SampleRateDefault, TRUE),
      Line("bandwidth", TRUE, SampleRateDefault, FALSE),
      Line("sample_rate", FALSE, "", FALSE) }

\* largest number of lines of a config file
MaxLines == 1

FilesTried ==
    Dicts({DEFAULT_CONFIG_PATH, OtherConfigPath}, SeqsUpTo(LinesTried, 0, MaxLines))

SettingsInit ==
    /\ pc = "load_args"
    /\ parser \in Dicts({"verbose"}, {"1"})
    /\ keys \in KeysTried
    /\ argv \in ArgvTried
    /\ definitions \in DefinitionsTried
    /\ files \in FilesTried
    /\ ret = None
    /\ again = None
    /\ NoRangeArgs
    /\ NoDetectArgs

\* ret = load_args(parser, keys, argv, definitions)
LoadArgs ==
    /\ pc = "load_args"
    /\ ret' = load_args(parser, keys, argv, definitions, files)
    /\ pc' = "load_args_returned"
    /\ UNCHANGED << rangeArgs, detectArgs, settingsArgs, again >>

SettingsNext == LoadArgs

SpecSettings == SettingsInit /\ [][SettingsNext]_vars


\* ================================================================== claims
Returned(call) == pc = call /\ ret.raised = NoError

OutOfRange(s, t, n) == Abs(s) >= n \/ Abs(t) >= n

\* the bounds of the window detect was called with
WindowBounds == IF window = None THEN << 0, -1 >> ELSE window[1]

\* s is zero except for the value a at Python index i
IsSpike(s, i, a) ==
    /\ i \in 0..(Len(s) - 1)
    /\ \A j \in 0..(Len(s) - 1) : At(s, j) = (IF j = i THEN a ELSE 0)

\* every bin of s is c
IsFlat(s, c) == \A j \in 0..(Len(s) - 1) : At(s, j) = c

\* ------------------------------------------------------------------- C1
\* C1: for every spectrum of length L >= 2, every valid window and every
\* peak filter (absent or non-empty), the peak_idx that detect returns is an
\* index of the full spectrum: 0 <= peak_idx <= L-1.
C1_PeakIdxInSpectrum ==
    Returned("detect_returned") => ret.peak_idx \in 0..(Len(fft_mag) - 1)

\* ------------------------------------------------------------------- C2
\* C2: fft_range_index raises the out-of-range ValueError exactly when
\* abs(start) >= length or abs(stop) >= length and raises nothing else, and
\* that range check is the only error detect raises.
C2_OnlyRangeError ==
    /\ pc = "range_returned" =>
          /\ ret.raised \in {NoError, ValueErrorRange}
          /\ ret.raised = ValueErrorRange <=> OutOfRange(start, stop, length)
    /\ pc = "detect_returned" =>
          /\ ret.raised \in {NoError, ValueErrorRange}
          /\ ret.raised = ValueErrorRange <=>
                OutOfRange(WindowBounds[1], WindowBounds[2], Len(fft_mag))

\* ------------------------------------------------------------------- C3
Converted(v, n) == IF v < 0 THEN n + v ELSE v

Min(a, b) == IF a < b THEN a ELSE b

Max(a, b) == IF a < b THEN b ELSE a

IsExample(s, t, a, b) ==
    (length = DocLength /\ start = s /\ stop = t) =>
        (ret.start_idx = a /\ ret.stop_idx = b)

\* C3: for valid inputs with start < 0 <= stop fft_range_index returns
\* (length+start, length+stop), so stop_idx >= length; in every other valid
\* case each negative bound v becomes length+v, the two are put in order and
\* both lie in [0, length); the four examples of length 1024 come out as
\* documented.
C3_Resolution ==
    Returned("range_returned") =>
        /\ IF start < 0 /\ stop >= 0
           THEN /\ ret.start_idx = length + start
                /\ ret.stop_idx = length + stop
                /\ ret.stop_idx >= length
           ELSE /\ ret.start_idx = Min(Converted(start, length), Converted(stop, length))
                /\ ret.stop_idx = Max(Converted(start, length), Converted(stop, length))
                /\ ret.start_idx \in 0..(length - 1)
                /\ ret.stop_idx \in 0..(length - 1)
        /\ IsExample(50, 100, 50, 100)
        /\ IsExample(0, -1, 0, 1023)
        /\ IsExample(-10, 10, 1014, 1034)
        /\ IsExample(-1, 0, 1023, 1024)

C3_Witness ==
    /\ Returned("range_returned")
    /\ length = DocLength /\ start = -10 /\ stop = 10
    /\ ret.start_idx = 1014 /\ ret.stop_idx = 1034

\* ------------------------------------------------------------------- C4
\* C4 as claimed: for all valid (start, stop, length), applying
\* fft_range_index to its own result gives the same result again, and
\* start_idx <= stop_idx.
C4_Idempotent ==
    /\ Returned("range_returned") => ret.start_idx <= ret.stop_idx
    /\ pc = "range_reapplied" => again = ret

\* C4 as amended: for all valid (start, stop, length) start_idx <= stop_idx;
\* applying fft_range_index to its own result gives the same result again
\* unless start < 0 <= stop, and then the second call raises the
\* out-of-range error, because stop_idx >= length.
C4_IdempotentUnlessWrapped ==
    /\ Returned("range_returned") => ret.start_idx <= ret.stop_idx
    /\ pc = "range_reapplied" =>
          IF start < 0 /\ stop >= 0
          THEN again.raised = ValueErrorRange
          ELSE again = ret

C4_Witness ==
    /\ pc = "range_reapplied"
    /\ start > 0 /\ stop < 0 /\ Converted(stop, length) < start
    /\ again = ret

\* ------------------------------------------------------------------- C5
\* the threshold power thresh_const + thresh_snr*noise_power +
\* thresh_stddev*stddev^2 of the returned state, in exact arithmetic, is
\* below a^2
BelowSquare(a) == a * a * ret.threshold.den > ret.threshold.num

\* C5 as claimed: for a spectrum that is zero except for one bin b of value
\* A > 0, detect with window=None and peak_filter=None returns peak_idx = b
\* and peak_mag = A, and detected = True whenever A^2 exceeds the threshold
\* power computed from the coefficients.
C5_SpikeDetected ==
    (Returned("detect_returned") /\ window = None /\ peak_filter = None) =>
        \A b \in 0..(Len(fft_mag) - 1) : \A a \in 1..(MaxMag + 1) :
            IsSpike(fft_mag, b, a) =>
                /\ ret.peak_idx = b
                /\ ret.peak_sq = a * a
                /\ BelowSquare(a) => ret.detected

\* C5 as amended: for such a spectrum detect returns peak_idx = b and
\* peak_mag = A; the noise power is (A^2 - 2*A^2)/(L-1) < 0, so noise_rms and
\* the threshold are NaN and detected is False for every coefficient triple.
C5_SpikeNeverDetected ==
    (Returned("detect_returned") /\ window = None /\ peak_filter = None) =>
        \A b \in 0..(Len(fft_mag) - 1) : \A a \in 1..(MaxMag + 1) :
            IsSpike(fft_mag, b, a) =>
                /\ ret.peak_idx = b
                /\ ret.peak_sq = a * a
                /\ ret.noise_rms.num = -(a * a)
                /\ ret.noise_rms.den = Len(fft_mag) - 1
                /\ ret.noise_rms.nan
                /\ ret.threshold.nan
                /\ ~ret.detected

C5_Witness ==
    /\ Returned("detect_returned") /\ window = None /\ peak_filter = None
    /\ IsSpike(fft_mag, 1, 1)
    /\ BelowSquare(1)
    /\ ret.peak_idx = 1
    /\ ~ret.detected

\* ------------------------------------------------------------------- C6
IsFirstMaxAt(w, k) ==
    /\ \A m \in 0..(Len(w) - 1) : At(w, m) <= At(w, k)
    /\ \A m \in 0..(k - 1) : At(w, m) < At(w, k)

IsStrictMaxAt(w, k) == \A m \in (0..(Len(w) - 1)) \ {k} : At(w, m) < At(w, k)

\* C6 as claimed, read in its favour (k is the first index of the maximum,
\* as np.argmax has it, and for the impulse that maximum is positive and
\* every other weight is smaller): for weights of length M with maximum at
\* index k, delay is M-k-1, and for a window that is zero except for a unit
\* impulse at window position i, the position of the maximum of the filtered
\* window minus delay is i, for every position i of the window.
C6_DelayCompensation ==
    (Returned("detect_returned") /\ peak_filter # None) =>
        LET w == peak_filter[1]
        IN  \A k \in 0..(Len(w) - 1) :
                IsFirstMaxAt(w, k) =>
                    /\ ret.filter_delay = Len(w) - k - 1
                    /\ (IsStrictMaxAt(w, k) /\ At(w, k) > 0) =>
                          \A i \in 0..(Len(ret.selection) - 1) :
                              IsSpike(ret.selection, i, 1) =>
                                  ret.max_idx - ret.filter_delay = i

\* C6 as amended: with k the first index of the maximum of the weights,
\* delay is M-k-1; if that maximum is positive and every other weight is
\* smaller, then for a unit impulse at window position i with
\* i + delay <= N-1 (N the window length) the position of the maximum of the
\* filtered window minus delay is i.
C6_DelayCompensationInside ==
    (Returned("detect_returned") /\ peak_filter # None) =>
        LET w == peak_filter[1]
        IN  \A k \in 0..(Len(w) - 1) :
                IsFirstMaxAt(w, k) =>
                    /\ ret.filter_delay = Len(w) - k - 1
                    /\ (IsStrictMaxAt(w, k) /\ At(w, k) > 0) =>
                          \A i \in 0..(Len(ret.selection) - 1) :
                              (/\ IsSpike(ret.selection, i, 1)
                               /\ i + ret.filter_delay <= Len(ret.selection) - 1) =>
                                  ret.max_idx - ret.filter_delay = i

C6_Witness ==
    /\ Returned("detect_returned") /\ peak_filter # None
    /\ Len(peak_filter[1]) = 2
    /\ IsStrictMaxAt(peak_filter[1], 0)
    /\ ret.filter_delay = 1
    /\ Len(ret.selection) = 3
    /\ IsSpike(ret.selection, 1, 1)
    /\ ret.max_idx = 2

\* ------------------------------------------------------------------- C7
\* C7: the noise power is (sum of the squares of all L bins of the spectrum
\* - 2*peak_mag^2) / (L-1), with L the length of the full spectrum and not
\* of the window; for a flat spectrum of value c with peak magnitude c,
\* (L-1)*noise_rms^2 = (L-2)*c^2.
C7_NoisePower ==
    Returned("detect_returned") =>
        /\ ret.noise_rms.num = Sum(Squares(fft_mag)) - 2 * ret.peak_sq
        /\ ret.noise_rms.den = Len(fft_mag) - 1
        /\ \A c \in 0..(MaxMag + 1) :
              (IsFlat(fft_mag, c) /\ ret.peak_sq = c * c) =>
                  /\ ~ret.noise_rms.nan
                  /\ (Len(fft_mag) - 1) * ret.noise_rms.num
                        = (Len(fft_mag) - 2) * c * c * ret.noise_rms.den

C7_Witness ==
    /\ Returned("detect_returned")
    /\ Len(fft_mag) = 3 /\ IsFlat(fft_mag, 1) /\ ret.peak_sq = 1
    /\ Len(ret.selection) = 2
    /\ ret.noise_rms.num = 1 /\ ret.noise_rms.den = 2

\* ------------------------------------------------------------------ C10
ResolvedWindow == fft_range_index(WindowBounds[1], WindowBounds[2], Len(fft_mag))

WindowElements ==
    /\ Len(ret.selection) = ResolvedWindow.stop_idx - ResolvedWindow.start_idx + 1
    /\ ret.start_idx = ResolvedWindow.start_idx
    /\ \A j \in 0..(Len(ret.selection) - 1) :
          At(ret.selection, j) = At(fft_mag, (ret.start_idx + j) % Len(fft_mag))

\* C10 as claimed: the window has stop_idx - start_idx + 1 elements, element
\* j is spectrum[(start_idx + j) mod L], and it has at most L elements, so
\* that no bin appears in it twice.
C10_WindowWithinSpectrum ==
    Returned("detect_returned") =>
        /\ WindowElements
        /\ Len(ret.selection) <= Len(fft_mag)

\* C10 as amended: the window has stop_idx - start_idx + 1 elements and
\* element j is spectrum[(start_idx + j) mod L]; it has at most 2L-1
\* elements, and more than L (so that bins appear twice) exactly when
\* start < 0 <= stop and stop - start >= L.
C10_WindowUpToTwice ==
    Returned("detect_returned") =>
        /\ WindowElements
        /\ Len(ret.selection) <= 2 * Len(fft_mag) - 1
        /\ Len(ret.selection) > Len(fft_mag) <=>
              /\ WindowBounds[1] < 0
              /\ WindowBounds[2] >= 0
              /\ WindowBounds[2] - WindowBounds[1] >= Len(fft_mag)

C10_Witness ==
    /\ Returned("detect_returned")
    /\ Len(fft_mag) = 3
    /\ window = Some(<< -2, 2 >>)
    /\ Len(ret.selection) = 5
    /\ ret.start_idx = 1

\* ------------------------------------------------------------------- C8
\* the settings of the config file load_args opened
ConfigPath == IF CONFIG_DEST \in DOMAIN argv THEN argv[CONFIG_DEST] ELSE DEFAULT_CONFIG_PATH

ConfigSettings == _parse_config(files[ConfigPath]).settings

\* C8: a requested key given on the command line has the command line's
\* value; a requested key that the config file sets and the command line
\* does not has the config file's value.
C8_ConfigOverridesDefault ==
    Returned("load_args_returned") =>
        \A k \in keys :
            /\ k \in DOMAIN argv =>
                  /\ k \in DOMAIN ret.subset
                  /\ ret.subset[k] = Parsed(definitions[k].parser, argv[k])
            /\ (k \notin DOMAIN argv /\ k \in DOMAIN ConfigSettings) =>
                  /\ k \in DOMAIN ret.subset
                  /\ ret.subset[k] = Parsed(definitions[k].parser, ConfigSettings[k])

\* ------------------------------------------------------------------- C9
\* the command line names only arguments the parser has
ArgvAccepted ==
    /\ keys \subseteq DOMAIN definitions
    /\ (DOMAIN argv) \ {CONFIG_DEST} \subseteq ArgparseKeys(keys, definitions)

\* C9: without --config and without a default config file that can be
\* opened, load_args raises nothing and returns the settings of the
\* defaults and the command line.
C9_MissingDefaultConfigIgnored ==
    (/\ pc = "load_args_returned"
     /\ CONFIG_DEST \notin DOMAIN argv
     /\ DEFAULT_CONFIG_PATH \notin DOMAIN files
     /\ ArgvAccepted) =>
        /\ ret.raised = NoError
        /\ \A k \in keys :
              IF k \in DOMAIN argv
              THEN ret.subset[k] = Parsed(definitions[k].parser, argv[k])
              ELSE IF definitions[k].default # None
              THEN ret.subset[k] = Parsed(definitions[k].parser, definitions[k].default[1])
              ELSE k \notin DOMAIN ret.subset

====
